---- MODULE Spec2Model ----
(***************************************************************************)
(* SwitchGen model download manager (switchgen/core/downloader.py), the   *)
(* catalog it serves (switchgen/core/models.py), and the two windows that  *)
(* drive them: the model download dialog (switchgen/ui/model_dialog.py)    *)
(* and the generate handler of the main window                             *)
(* (switchgen/ui/main_window.py).                                          *)
(*                                                                         *)
(* One ModelDownloader instance is shared by the caller's thread, which    *)
(* issues download_async() and cancel_download(), and by the worker        *)
(* threads download_async() spawns, each running download().  The model    *)
(* follows download() statement by statement: every read or write of the   *)
(* instance's two fields, of the filesystem and every callback is a step   *)
(* of its own, so that the interleavings of the threads are the program's. *)
(***************************************************************************)
EXTENDS Integers, Sequences, FiniteSets, TLC

(***************************************************************************)
(* Bounds of the model.                                                    *)
(***************************************************************************)
\* A remote file is at most this many bytes long (a byte count of the model).
MaxBytes == 2
\* Disk space is counted in 1/UnitsPerMB of a megabyte (shutil reports bytes).
UnitsPerMB == 2
\* Longest error text the classification is applied to on its own, in words.
MaxWords == 2
\* The clock is read in ticks, QuarterTicks of them in 250 ms.
QuarterTicks == 2
\* A progress bar followed on the clock: its bytes and the last clock reading.
MaxBarBytes == 4
MaxClock == 10
\* Largest byte count DownloadProgress.progress is applied to on its own.
MaxCount == 8
\* The generation jobs the queue of the main window holds at most.
MaxJobs == 2
\* Largest size_mb the disk-space function is applied to on its own.
MaxSizeMb == 12

(***************************************************************************)
(* Optional[T]: None, or a value.                                          *)
(***************************************************************************)
None == << >>
Some(x) == << x >>

(***************************************************************************)
(* A float is kept as the exact fraction << numerator, denominator >> in   *)
(* lowest terms, the denominator positive.                                 *)
(***************************************************************************)
RECURSIVE GCD(_, _)
GCD(a, b) == IF b = 0 THEN a ELSE GCD(b, a % b)

Abs(x) == IF x < 0 THEN 0 - x ELSE x

Rat(num, den) ==
    LET g == GCD(Abs(num), den) IN << num \div g, den \div g >>

Zero == Rat(0, 1)
One == Rat(1, 1)
RatAdd(a, b) == Rat(a[1] * b[2] + b[1] * a[2], a[2] * b[2])
RatMul(a, b) == Rat(a[1] * b[1], a[2] * b[2])
RatLeq(a, b) == a[1] * b[2] <= b[1] * a[2]
\* min(a, b)
RatMin(a, b) == IF RatLeq(b, a) THEN b ELSE a

(***************************************************************************)
(* models.py: ModelType, ModelInfo, MODEL_CATALOG.  A string is kept as    *)
(* the sequence of its pieces, the one-piece sequence when it is a literal.*)
(***************************************************************************)
ModelInfo(id, type, filename, local_filename, size_mb, required_for) ==
    [id |-> id, type |-> type, filename |-> filename,
     local_filename |-> local_filename, size_mb |-> size_mb,
     required_for |-> required_for]

MODEL_CATALOG ==
    << ModelInfo("clip_vit_l", "clip_vision", "model.safetensors",
                 Some("clip_vit_l.safetensors"), 890, <<"3d">>),
       ModelInfo("t5_base", "text_encoders", "model.safetensors",
                 Some("t5-base.safetensors"), 850, <<"audio">>),
       ModelInfo("sd15_base", "checkpoints", "v1-5-pruned-emaonly.safetensors",
                 None, 4270, <<"text2img", "img2img">>),
       ModelInfo("sd15_inpaint", "checkpoints", "sd-v1-5-inpainting.ckpt",
                 None, 4270, <<"inpaint">>),
       ModelInfo("sdxl_base", "checkpoints", "sd_xl_base_1.0.safetensors",
                 None, 6940, <<"text2img">>),
       ModelInfo("sdxl_refiner", "checkpoints", "sd_xl_refiner_1.0.safetensors",
                 None, 6080, << >>),
       ModelInfo("stable_zero123", "checkpoints", "stable_zero123.ckpt",
                 None, 4900, <<"3d">>),
       ModelInfo("stable_audio", "checkpoints", "model.safetensors",
                 Some("stable-audio-open-1.0.safetensors"), 4850, <<"audio">>),
       ModelInfo("controlnet_canny", "controlnet",
                 "diffusion_pytorch_model.safetensors",
                 Some("control_v11p_sd15_canny.safetensors"), 1450, << >>),
       ModelInfo("controlnet_depth", "controlnet",
                 "diffusion_pytorch_model.safetensors",
                 Some("control_v11f1p_sd15_depth.safetensors"), 1450, << >>),
       ModelInfo("controlnet_openpose", "controlnet",
                 "diffusion_pytorch_model.safetensors",
                 Some("control_v11p_sd15_openpose.safetensors"), 1450, << >>),
       ModelInfo("controlnet_scribble", "controlnet",
                 "diffusion_pytorch_model.safetensors",
                 Some("control_v11p_sd15_scribble.safetensors"), 1450, << >>),
       ModelInfo("realesrgan_x4", "upscale_models", "RealESRGAN_x4.pth",
                 None, 64, << >>),
       ModelInfo("sdxl_vae", "vae", "sdxl_vae.safetensors",
                 None, 335, << >>) >>

\* ModelInfo.repo_id of the catalog entries.
repo_id(m) ==
    CASE m.id = "clip_vit_l" -> "openai/clip-vit-large-patch14"
      [] m.id = "t5_base" -> "google/t5-v1_1-base"
      [] m.id = "sd15_base" -> "stable-diffusion-v1-5/stable-diffusion-v1-5"
      [] m.id = "sd15_inpaint" -> "stable-diffusion-v1-5/stable-diffusion-inpainting"
      [] m.id = "sdxl_base" -> "stabilityai/stable-diffusion-xl-base-1.0"
      [] m.id = "sdxl_refiner" -> "stabilityai/stable-diffusion-xl-refiner-1.0"
      [] m.id = "stable_zero123" -> "stabilityai/stable-zero123"
      [] m.id = "stable_audio" -> "stabilityai/stable-audio-open-1.0"
      [] m.id = "controlnet_canny" -> "lllyasviel/control_v11p_sd15_canny"
      [] m.id = "controlnet_depth" -> "lllyasviel/control_v11f1p_sd15_depth"
      [] m.id = "controlnet_openpose" -> "lllyasviel/control_v11p_sd15_openpose"
      [] m.id = "controlnet_scribble" -> "lllyasviel/control_v11p_sd15_scribble"
      [] m.id = "realesrgan_x4" -> "ai-forever/Real-ESRGAN"
      [] m.id = "sdxl_vae" -> "stabilityai/sdxl-vae"

\* ModelInfo.get_local_filename: self.local_filename or self.filename.
get_local_filename_ignores_override(m) == m.filename

get_local_filename(m) ==
    IF m.local_filename # None /\ m.local_filename[1] # ""
    THEN m.local_filename[1]
    ELSE m.filename

\* The keys of the MODEL_CATALOG dict, in the order of its declaration:
\* CatalogKeys[k] is the key MODEL_CATALOG[k] is stored under.
CatalogKeys ==
    << "clip_vit_l", "t5_base", "sd15_base", "sd15_inpaint", "sdxl_base",
       "sdxl_refiner", "stable_zero123", "stable_audio", "controlnet_canny",
       "controlnet_depth", "controlnet_openpose", "controlnet_scribble",
       "realesrgan_x4", "sdxl_vae" >>

\* MODEL_CATALOG.get(model_id), for a key of the catalog.
get_model_info(model_id) ==
    LET i == CHOOSE k \in 1..Len(CatalogKeys) : CatalogKeys[k] = model_id
    IN  MODEL_CATALOG[i]

\* [m for m in MODEL_CATALOG.values() if m.type == model_type]
get_models_by_type(model_type) ==
    SelectSeq(MODEL_CATALOG, LAMBDA m : m.type = model_type)

\* [m for m in MODEL_CATALOG.values() if workflow_type in m.required_for]
get_required_models_first_tag(workflow_type) ==
    SelectSeq(MODEL_CATALOG,
              LAMBDA m : m.required_for # << >> /\ m.required_for[1] = workflow_type)

get_required_models(workflow_type) ==
    SelectSeq(MODEL_CATALOG,
              LAMBDA m : \E i \in 1..Len(m.required_for) :
                            m.required_for[i] = workflow_type)

\* The catalog entries the downloads of the model are issued for: one whose
\* file is fetched under its final name, one that is renamed after the fetch.
\* Both live in the same type directory.
DownloadModels == { get_model_info("sd15_base"), get_model_info("stable_audio") }

\* The worker threads download_async can have running.
Threads == {"w1", "w2"}

(***************************************************************************)
(* Paths under models_dir: << type >> is the type directory and            *)
(* << type, name >> a file in it.                                          *)
(***************************************************************************)
target_dir(m) == << m.type >>
\* target_path = target_dir / model_info.get_local_filename()
target_path_by_remote_name(m) == << m.type, m.filename >>

target_path(m) == << m.type, get_local_filename(m) >>
\* hf_hub_download(filename=..., local_dir=target_dir) writes local_dir/filename.
fetched_path(m) == << m.type, m.filename >>

Paths ==
    UNION { { target_dir(m), target_path(m), fetched_path(m) } : m \in DownloadModels }

Absent == [kind |-> "absent", size |-> 0]
Dir == [kind |-> "dir", size |-> 0]
File(size) == [kind |-> "file", size |-> size]
\* The size of a file that is on disk before any download: no fetch makes it.
OldSize == MaxBytes + 1

\* Path.exists()
exists(f, p) == f[p].kind # "absent"

\* models.is_model_installed(model_info, models_dir), on the filesystem f.
is_model_installed(m, f) == exists(f, target_path(m))

(***************************************************************************)
(* DownloadResult, DownloadProgress and the messages of download().        *)
(***************************************************************************)
DownloadResult(success, model_id, path, error) ==
    [success |-> success, model_id |-> model_id, path |-> path, error |-> error]

DownloadProgress(model_id, downloaded_bytes, total_bytes, speed_bps) ==
    [model_id |-> model_id, downloaded_bytes |-> downloaded_bytes,
     total_bytes |-> total_bytes, speed_bps |-> speed_bps]

\* DownloadProgress.progress: 0.0 if total_bytes <= 0, else
\* min(1.0, downloaded_bytes / total_bytes).
progress_unclamped(self) ==
    IF self.total_bytes <= 0 THEN Zero
    ELSE Rat(self.downloaded_bytes, self.total_bytes)

progress_remaining(self) ==
    IF self.total_bytes <= 0 THEN Zero
    ELSE RatMin(One, Rat(self.total_bytes - self.downloaded_bytes, self.total_bytes))

progress(self) ==
    IF self.total_bytes <= 0 THEN Zero
    ELSE RatMin(One, Rat(self.downloaded_bytes, self.total_bytes))

\* What the caller's callbacks receive: a progress sample from update(), the
\* final progress sample of download(), the result given to complete_callback.
Event(ev, arg) == [ev |-> ev, arg |-> arg]

MsgNoBackend == <<"huggingface_hub not installed. Run: pip install huggingface_hub">>
MsgCancelled == <<"Download cancelled">>
MsgNotFound == <<"Model not found on HuggingFace. It may have been moved or removed.">>
MsgAuth == <<"Authentication required. This model may need a HuggingFace account.">>
MsgDenied == <<"Access denied. You may need to accept the model's license on HuggingFace.">>
MsgNetwork == <<"Network error. Check your internet connection and try again.">>
MsgResolve == <<"Could not connect to HuggingFace. Check your internet connection.">>

\* f"{x:.0f}" of x = units / UnitsPerMB: the nearest integer, ties to even.
Format0f(units) ==
    LET q == units \div UnitsPerMB
        r == units % UnitsPerMB
    IN  IF 2 * r < UnitsPerMB THEN q
        ELSE IF 2 * r > UnitsPerMB THEN q + 1
        ELSE IF q % 2 = 0 THEN q ELSE q + 1

MsgNoSpace(size_mb, units) ==
    << "Not enough disk space. Need ", ToString(size_mb), "MB, have ",
       ToString(Format0f(units)), "MB free" >>

(***************************************************************************)
(* str(e) of the exceptions the fetch, the filesystem or a progress        *)
(* callback raise: the words of the text.                                  *)
(***************************************************************************)
ErrEmpty == << >>
ErrQuota == <<"Disk", "quota", "exceeded">>
ErrUnauthorized == <<"401", "Client", "Error:", "Unauthorized">>
ErrCallback == <<"progress", "callback", "failed">>
ErrIsADirectory == <<"Is", "a", "directory">>
ErrFileExists == <<"File", "exists">>
ErrNoSuchFile == <<"No", "such", "file", "or", "directory">>
\* What hf_hub_download itself may raise with.
RawErrors == { ErrEmpty, ErrQuota, ErrUnauthorized }

\* str.lower() on the words the texts are made of.
lower(w) ==
    CASE w = "Unauthorized" -> "unauthorized"
      [] w = "Forbidden" -> "forbidden"
      [] w = "Connection" -> "connection"
      [] w = "Timeout" -> "timeout"
      [] w = "Resolve" -> "resolve"
      [] w = "DNS" -> "dns"
      [] w = "Disk" -> "disk"
      [] w = "Client" -> "client"
      [] w = "Error:" -> "error:"
      [] w = "Is" -> "is"
      [] w = "File" -> "file"
      [] w = "No" -> "no"
      [] OTHER -> w

\* `kw in text`
contains(text, kw) == \E i \in 1..Len(text) : text[i] = kw
\* `kw in text.lower()`
contains_lower(text, kw) == \E i \in 1..Len(text) : lower(text[i]) = kw

\* download(), `except Exception as e`: the guidance that replaces str(e).
classify_unknown_replaced(error_msg) ==
    IF contains(error_msg, "401") \/ contains_lower(error_msg, "unauthorized")
    THEN MsgAuth
    ELSE IF contains(error_msg, "403") \/ contains_lower(error_msg, "forbidden")
    THEN MsgDenied
    ELSE IF contains_lower(error_msg, "connection") \/ contains_lower(error_msg, "timeout")
    THEN MsgNetwork
    ELSE IF contains_lower(error_msg, "resolve") \/ contains_lower(error_msg, "dns")
    THEN MsgResolve
    ELSE <<"Download failed">>

classify(error_msg) ==
    IF contains(error_msg, "401") \/ contains_lower(error_msg, "unauthorized")
    THEN MsgAuth
    ELSE IF contains(error_msg, "403") \/ contains_lower(error_msg, "forbidden")
    THEN MsgDenied
    ELSE IF contains_lower(error_msg, "connection") \/ contains_lower(error_msg, "timeout")
    THEN MsgNetwork
    ELSE IF contains_lower(error_msg, "resolve") \/ contains_lower(error_msg, "dns")
    THEN MsgResolve
    ELSE error_msg


(***************************************************************************)
(* The state.                                                              *)
(***************************************************************************)
VARIABLES
    HF_AVAILABLE,       \* the import of huggingface_hub succeeded
    models_dir_exists,  \* ModelDownloader.models_dir is a directory on disk
    fs,                 \* what is at each path under models_dir
    current_download,   \* ModelDownloader._current_download: Optional[str]
    cancel_requested,   \* ModelDownloader._cancel_requested
    pc,                 \* where each worker thread is
    call,               \* the arguments of the thread's download_async
    total,              \* tqdm.total of the thread's transfer (0: None)
    n,                  \* tqdm.n: the bytes counted so far
    updates,            \* the calls of DownloadProgressTqdm.update so far
    result,             \* the DownloadResult download() has built: Optional
    log,                \* the callbacks the thread has made, in order
    cancel_seen,        \* history: when cancel_download() first came during
                        \* the thread's download: "no", "early" (before its
                        \* first chunk) or "late"
    free_read,          \* history: the free space check_disk_space has read,
                        \* while download() acts on its answer (else 0)
    after_stale,        \* history: the download was started with a cancel
                        \* request left over from one that had succeeded
    d_size,             \* check_disk_space on its own: the argument
    d_free,             \* check_disk_space on its own: the free space
    d_out,              \* check_disk_space on its own: the answer
    clock,              \* time.time(), in ticks, while a bar is followed on
                        \* the clock
    last_update_time,   \* DownloadProgressTqdm._last_update_time
    last_bytes,         \* DownloadProgressTqdm._last_bytes
    smoothed_speed,     \* DownloadProgressTqdm._smoothed_speed
    samples,            \* history: the speed samples the bar has taken, as
                        \* << instant speed, elapsed ticks >>
    p_value,            \* DownloadProgress.progress on its own: the value
    p_out,              \* DownloadProgress.progress on its own: the answer
    e_text,             \* the generic failure path on its own: str(e) of the
                        \* exception the fetch raises
    cq,                 \* the catalog functions on their own: the arguments
                        \* and the answers of the calls made so far
    dialog,             \* ModelDownloadDialog: its download buttons and the
                        \* completions its main loop has handled
    window              \* MainWindow: _generating, the generate button, the
                        \* selection state and the jobs of its queue

vars ==
    << HF_AVAILABLE, models_dir_exists, fs, current_download,
       cancel_requested, pc, call, total, n, updates, result, log,
       cancel_seen, free_read, after_stale, d_size, d_free, d_out,
       clock, last_update_time, last_bytes, smoothed_speed, samples,
       p_value, p_out, e_text, cq, dialog, window >>

env_vars == << HF_AVAILABLE, models_dir_exists >>
disk_fn_vars == << d_size, d_free, d_out >>
history_vars == << cancel_seen, free_read, after_stale >>
bar_vars == << clock, last_update_time, last_bytes, smoothed_speed, samples >>
progress_fn_vars == << p_value, p_out >>
error_fn_vars == << e_text >>
\* What download() on a worker thread leaves alone besides disk_fn_vars.
\* What only the catalog functions, the dialog and the main window touch.
ui_vars == << cq, dialog, window >>
\* The downloader, its threads and the functions followed on their own.
core_vars ==
    << env_vars, fs, current_download, cancel_requested, pc, call, total, n,
       updates, result, log, history_vars, disk_fn_vars, bar_vars,
       progress_fn_vars, error_fn_vars >>
aux_vars == << bar_vars, progress_fn_vars, error_fn_vars, ui_vars >>

\* `free_mb >= size_mb + 500`: the headroom, in MB.
Headroom == 500

\* The free space shutil.disk_usage may report, in 1/UnitsPerMB MB: around
\* what each model needs.
FreeChoices ==
    UNION { { (m.size_mb + Headroom) * UnitsPerMB - 1,
              (m.size_mb + Headroom) * UnitsPerMB } : m \in DownloadModels }

\* ModelDownloader.check_disk_space: free_mb >= (size_mb + 500), where
\* free_mb = stat.free / (1024 * 1024) is the exact quotient of the free
\* space get_disk_space_mb has just read.
check_disk_space_strict(free_units, size_mb) ==
    free_units > (size_mb + Headroom) * UnitsPerMB

check_disk_space(free_units, size_mb) ==
    free_units >= (size_mb + Headroom) * UnitsPerMB

\* ModelDownloader.is_downloading
is_downloading == current_download # None
\* ModelDownloader.current_download_id
current_download_id == current_download

(***************************************************************************)
(* The filesystems download() may find.  Without models_dir nothing is     *)
(* there; with it, the type directory is missing, is a directory, or is a  *)
(* file of that name; in the directory each final path is free, holds an   *)
(* earlier file, or is a directory.                                        *)
(***************************************************************************)
TargetPaths == { target_path(m) : m \in DownloadModels }
TypeDirs == { target_dir(m) : m \in DownloadModels }

InitialFilesystems(root) ==
    IF ~root THEN { [p \in Paths |-> Absent] }
    ELSE { f \in [Paths -> {Absent, Dir, File(OldSize)}] :
             /\ \A p \in Paths \ (TargetPaths \cup TypeDirs) : f[p] = Absent
             /\ \A p \in TargetPaths : f[<<p[1]>>] # Dir => f[p] = Absent }

NoModel == ModelInfo("", "", "", None, 0, << >>)
NoCall == [model_info |-> NoModel, progress_callback |-> "none",
           complete_callback |-> FALSE]

InitThreads ==
    /\ current_download = None
    /\ cancel_requested = FALSE
    /\ pc = [t \in Threads |-> "idle"]
    /\ call = [t \in Threads |-> NoCall]
    /\ total = [t \in Threads |-> 0]
    /\ n = [t \in Threads |-> 0]
    /\ updates = [t \in Threads |-> 0]
    /\ result = [t \in Threads |-> None]
    /\ log = [t \in Threads |-> << >>]
    /\ cancel_seen = [t \in Threads |-> "no"]
    /\ free_read = [t \in Threads |-> 0]
    /\ after_stale = [t \in Threads |-> FALSE]

\* No bar is followed on the clock, no function is applied on its own.
InitBar ==
    /\ clock = 0
    /\ last_update_time = 0
    /\ last_bytes = 0
    /\ smoothed_speed = Zero
    /\ samples = << >>

\* No catalog function is applied on its own, no dialog and no window is
\* open.
NoQuery == [model_type |-> "", workflow_type |-> "", model_id |-> "",
            by_type |-> None, required |-> None, info |-> None, local |-> None]
NoDialog == << >>
NoWindow == << >>

InitUi ==
    /\ cq = NoQuery
    /\ dialog = NoDialog
    /\ window = NoWindow

InitProgressFn ==
    /\ p_value = None
    /\ p_out = None

InitErrorFn ==
    /\ e_text = << >>

Init ==
    /\ HF_AVAILABLE \in BOOLEAN
    /\ models_dir_exists \in BOOLEAN
    /\ fs \in InitialFilesystems(models_dir_exists)
    /\ InitThreads
    /\ d_size = 0
    /\ d_free = 0
    /\ d_out = "unset"
    /\ InitBar
    /\ InitUi
    /\ InitProgressFn
    /\ InitErrorFn


(***************************************************************************)
(* The caller's thread: download_async() and cancel_download().            *)
(***************************************************************************)
ProgressCallbacks == {"none", "ok", "raises"}

\* Inside download(): between the call and the return (or the raise).
InDownload ==
    {"start", "disk", "nospace", "mkdir", "mark", "reset", "open", "hf",
     "rename", "unlink", "move", "final", "finally"}
\* Inside hf_hub_download().
InFetch == {"open", "hf"}
active(t) == pc[t] \in InDownload

\* download_async: thread.start() on run(); returns the thread at once.
\* The thread takes a slot no running thread holds.  What the handler that
\* calls it does to its dialog in the same turn of the main loop is the
\* handler's to say.
DownloadAsync_runs_inline(t, m, progress_callback, complete_callback) ==
    /\ pc[t] \in {"idle", "done", "raised"}
    /\ pc' = [pc EXCEPT ![t] = IF HF_AVAILABLE THEN "start" ELSE "done"]
    /\ call' = [call EXCEPT ![t] =
                  [model_info |-> m, progress_callback |-> progress_callback,
                   complete_callback |-> complete_callback]]
    /\ total' = [total EXCEPT ![t] = 0]
    /\ n' = [n EXCEPT ![t] = 0]
    /\ updates' = [updates EXCEPT ![t] = 0]
    /\ result' = [result EXCEPT ![t] =
                    IF HF_AVAILABLE THEN None
                    ELSE Some(DownloadResult(FALSE, m.id, None, Some(MsgNoBackend)))]
    /\ log' = [log EXCEPT ![t] =
                 IF ~HF_AVAILABLE /\ complete_callback
                 THEN << Event("complete",
                               DownloadResult(FALSE, m.id, None, Some(MsgNoBackend))) >>
                 ELSE << >>]
    /\ cancel_seen' = [cancel_seen EXCEPT ![t] = "no"]
    /\ after_stale' = [after_stale EXCEPT ![t] = FALSE]
    /\ UNCHANGED << env_vars, fs, current_download, cancel_requested,
                    free_read, disk_fn_vars, bar_vars, progress_fn_vars,
                    error_fn_vars, cq, window >>

DownloadAsync(t, m, progress_callback, complete_callback) ==
    /\ pc[t] \in {"idle", "done", "raised"}
    /\ pc' = [pc EXCEPT ![t] = "start"]
    /\ call' = [call EXCEPT ![t] =
                  [model_info |-> m, progress_callback |-> progress_callback,
                   complete_callback |-> complete_callback]]
    /\ total' = [total EXCEPT ![t] = 0]
    /\ n' = [n EXCEPT ![t] = 0]
    /\ updates' = [updates EXCEPT ![t] = 0]
    /\ result' = [result EXCEPT ![t] = None]
    /\ log' = [log EXCEPT ![t] = << >>]
    /\ cancel_seen' = [cancel_seen EXCEPT ![t] = "no"]
    /\ after_stale' = [after_stale EXCEPT ![t] =
                         /\ cancel_requested
                         /\ \A o \in Threads : ~active(o)
                         /\ \E o \in Threads : /\ result[o] # None
                                                 /\ result[o][1].success]
    /\ UNCHANGED << env_vars, fs, current_download, cancel_requested,
                    free_read, disk_fn_vars, bar_vars, progress_fn_vars,
                    error_fn_vars, cq, window >>

\* cancel_download: self._cancel_requested = True.
cancel_download ==
    /\ cancel_requested' = TRUE
    /\ cancel_seen' = [t \in Threads |->
                         IF cancel_seen[t] # "no" \/ ~active(t) THEN cancel_seen[t]
                         ELSE IF updates[t] = 0 THEN "early" ELSE "late"]
    /\ UNCHANGED << env_vars, fs, current_download, pc, call, total,
                    n, updates, result, log, free_read, after_stale,
                    disk_fn_vars, aux_vars >>

(***************************************************************************)
(* download(), on the worker thread t.                                     *)
(***************************************************************************)
Failure_with_path(m, msg) ==
    DownloadResult(FALSE, m.id, Some(target_path(m)), Some(msg))

Failure(m, msg) == DownloadResult(FALSE, m.id, None, Some(msg))
Success(m, path) == DownloadResult(TRUE, m.id, Some(path), None)

\* A step of thread t that returns `r` from inside the try block: the
\* result is built, the finally clause is still to run.
Return(t, r) ==
    /\ result' = [result EXCEPT ![t] = Some(r)]
    /\ pc' = [pc EXCEPT ![t] = "finally"]

\* `except Exception as e`, with str(e) = text.
Except(t, text) == Return(t, Failure(call[t].model_info, classify(text)))

\* `if not HF_AVAILABLE: return DownloadResult(success=False, ...)`
CheckBackend_after_mark(t) ==
    /\ pc[t] = "start"
    /\ current_download' = Some(call[t].model_info.id)
    /\ cancel_requested' = FALSE
    /\ IF ~HF_AVAILABLE
       THEN /\ result' = [result EXCEPT ![t] =
                            Some(DownloadResult(FALSE, call[t].model_info.id, None,
                                                Some(MsgNoBackend)))]
            /\ pc' = [pc EXCEPT ![t] = "returned"]
       ELSE /\ pc' = [pc EXCEPT ![t] = "disk"]
            /\ UNCHANGED result
    /\ UNCHANGED << env_vars, fs, call, total, n, updates, log, history_vars,
                    disk_fn_vars, aux_vars >>

CheckBackend(t) ==
    /\ pc[t] = "start"
    /\ IF ~HF_AVAILABLE
       THEN /\ result' = [result EXCEPT ![t] =
                            Some(Failure(call[t].model_info, MsgNoBackend))]
            /\ pc' = [pc EXCEPT ![t] = "returned"]
       ELSE /\ pc' = [pc EXCEPT ![t] = "disk"]
            /\ UNCHANGED result
    /\ UNCHANGED << env_vars, fs, current_download, cancel_requested,
                    call, total, n, updates, log, history_vars, disk_fn_vars, aux_vars >>

\* `if not self.check_disk_space(model_info.size_mb):` shutil.disk_usage raises
\* FileNotFoundError when models_dir does not exist; nothing catches it here.
CheckDiskSpace_after_mkdir(t, free_units) ==
    LET d == target_dir(call[t].model_info) IN
    /\ pc[t] = "disk"
    /\ pc' = [pc EXCEPT ![t] =
                IF ~models_dir_exists THEN "raised"
                ELSE IF check_disk_space(free_units, call[t].model_info.size_mb)
                THEN "mkdir"
                ELSE "nospace"]
    /\ fs' = IF models_dir_exists /\ fs[d].kind = "absent"
             THEN [fs EXCEPT ![d] = Dir] ELSE fs
    /\ free_read' = [free_read EXCEPT ![t] =
                       IF models_dir_exists THEN free_units ELSE 0]
    /\ UNCHANGED << env_vars, current_download, cancel_requested,
                    call, total, n, updates, result, log, cancel_seen,
                    after_stale, disk_fn_vars, aux_vars >>

CheckDiskSpace(t, free_units) ==
    /\ pc[t] = "disk"
    /\ pc' = [pc EXCEPT ![t] =
                IF ~models_dir_exists THEN "raised"
                ELSE IF check_disk_space(free_units, call[t].model_info.size_mb)
                THEN "mkdir"
                ELSE "nospace"]
    /\ free_read' = [free_read EXCEPT ![t] =
                       IF models_dir_exists THEN free_units ELSE 0]
    /\ UNCHANGED << env_vars, fs, current_download, cancel_requested,
                    call, total, n, updates, result, log, cancel_seen,
                    after_stale, disk_fn_vars, aux_vars >>

\* `free_mb, _ = self.get_disk_space_mb()` again, and the result that names it.
NoSpace(t, free_units) ==
    /\ pc[t] = "nospace"
    /\ result' = [result EXCEPT ![t] =
                    Some(Failure(call[t].model_info,
                                 MsgNoSpace(call[t].model_info.size_mb, free_units)))]
    /\ pc' = [pc EXCEPT ![t] = "returned"]
    /\ free_read' = [free_read EXCEPT ![t] = 0]
    /\ UNCHANGED << env_vars, fs, current_download, cancel_requested,
                    call, total, n, updates, log, cancel_seen, after_stale,
                    disk_fn_vars, aux_vars >>

\* `target_dir.mkdir(parents=True, exist_ok=True)`: FileExistsError when the
\* path is taken by a file; it is raised outside the try block.
Mkdir(t) ==
    LET d == target_dir(call[t].model_info) IN
    /\ pc[t] = "mkdir"
    /\ IF fs[d].kind = "file"
       THEN /\ pc' = [pc EXCEPT ![t] = "raised"]
            /\ UNCHANGED fs
       ELSE /\ fs' = [fs EXCEPT ![d] = Dir]
            /\ pc' = [pc EXCEPT ![t] = "mark"]
    /\ free_read' = [free_read EXCEPT ![t] = 0]
    /\ UNCHANGED << env_vars, current_download, cancel_requested,
                    call, total, n, updates, result, log, cancel_seen,
                    after_stale, disk_fn_vars, aux_vars >>

\* `self._current_download = model_info.id`
MarkInFlight(t) ==
    /\ pc[t] = "mark"
    /\ current_download' = Some(call[t].model_info.id)
    /\ pc' = [pc EXCEPT ![t] = "reset"]
    /\ UNCHANGED << env_vars, fs, cancel_requested, call, total, n,
                    updates, result, log, history_vars, disk_fn_vars, aux_vars >>

\* `self._cancel_requested = False`
ResetCancel_missing(t) ==
    /\ pc[t] = "reset"
    /\ pc' = [pc EXCEPT ![t] = "open"]
    /\ UNCHANGED << env_vars, fs, current_download, cancel_requested,
                    call, total, n, updates, result, log, history_vars,
                    disk_fn_vars, aux_vars >>

ResetCancel(t) ==
    /\ pc[t] = "reset"
    /\ cancel_requested' = FALSE
    /\ pc' = [pc EXCEPT ![t] = "open"]
    /\ UNCHANGED << env_vars, fs, current_download, call, total, n,
                    updates, result, log, history_vars, disk_fn_vars, aux_vars >>


(***************************************************************************)
(* hf_hub_download(..., tqdm_class=BoundProgressTqdm), as download() sees  *)
(* it: it creates the progress bar with the length the server announces,   *)
(* calls update() once per chunk, writes local_dir/filename and returns    *)
(* its path, or raises.                                                    *)
(***************************************************************************)
\* The bar is created: DownloadProgressTqdm.__init__ with total (0: unknown).
HfOpen(t, tot) ==
    /\ pc[t] = "open"
    /\ total' = [total EXCEPT ![t] = tot]
    /\ pc' = [pc EXCEPT ![t] = "hf"]
    /\ UNCHANGED << env_vars, fs, current_download, cancel_requested,
                    call, n, updates, result, log, history_vars, disk_fn_vars, aux_vars >>

\* EntryNotFoundError, and `except EntryNotFoundError`.
HfNotFound(t) ==
    /\ pc[t] = "open"
    /\ Return(t, Failure(call[t].model_info, MsgNotFound))
    /\ UNCHANGED << env_vars, fs, current_download, cancel_requested,
                    call, total, n, updates, log, history_vars, disk_fn_vars, aux_vars >>

\* Any other exception of the fetch, and `except Exception as e`.
HfError(t, text) ==
    /\ pc[t] \in InFetch
    /\ Except(t, text)
    /\ UNCHANGED << env_vars, fs, current_download, cancel_requested,
                    call, total, n, updates, log, history_vars, disk_fn_vars, aux_vars >>

\* DownloadProgressTqdm.update(k); `due` is `elapsed >= 0.25` on the clock.
\* DownloadCancelledException leaves hf_hub_download and is caught by
\* `except DownloadCancelledException`; an exception of the progress callback
\* by `except Exception`.
update_counts_first(t, k, due, speed) ==
    LET m == call[t].model_info
        emit == call[t].progress_callback # "none" /\ total[t] # 0 /\ due
    IN  /\ updates' = [updates EXCEPT ![t] = @ + 1]
        /\ n' = [n EXCEPT ![t] = @ + k]
        /\ log' = [log EXCEPT ![t] =
                     IF emit /\ call[t].progress_callback = "ok"
                     THEN Append(@, Event("progress",
                                          DownloadProgress(m.id, n[t] + k, total[t], speed)))
                     ELSE @]
        /\ IF cancel_requested
           THEN Return(t, Failure(m, MsgCancelled))
           ELSE IF emit /\ call[t].progress_callback = "raises"
           THEN Except(t, ErrCallback)
           ELSE UNCHANGED << pc, result >>

update(t, k, due, speed) ==
    LET m == call[t].model_info
        emit == call[t].progress_callback # "none" /\ total[t] # 0 /\ due
    IN  /\ updates' = [updates EXCEPT ![t] = @ + 1]
        /\ IF cancel_requested
           THEN /\ Return(t, Failure(m, MsgCancelled))
                /\ UNCHANGED << n, log >>
           ELSE /\ n' = [n EXCEPT ![t] = @ + k]
                /\ IF emit
                   THEN IF call[t].progress_callback = "raises"
                        THEN /\ Except(t, ErrCallback)
                             /\ UNCHANGED log
                        ELSE /\ log' = [log EXCEPT ![t] =
                                          Append(@, Event("progress",
                                              DownloadProgress(m.id, n[t] + k, total[t], speed)))]
                             /\ UNCHANGED << pc, result >>
                   ELSE UNCHANGED << pc, result, log >>

\* The smoothed speed a sample carries where the clock is not followed: some
\* positive number of bytes per second (SpecBar follows the clock and the
\* speed the bar computes from it).
SpeedChoices == { One }

\* The bytes still to come: to the announced length, or to the model's bound.
remaining(t) == (IF total[t] # 0 THEN total[t] ELSE MaxBytes) - n[t]

\* A chunk of k bytes arrives.  What update() reads off the clock is given:
\* `due`, and the smoothed speed of the sample when it is due.
HfChunk(t, k, due, speed) ==
    /\ pc[t] = "hf"
    /\ k <= remaining(t)
    /\ due => (call[t].progress_callback # "none" /\ total[t] # 0)
    /\ speed \in (IF due THEN SpeedChoices ELSE {Zero})
    /\ update(t, k, due, speed)
    /\ UNCHANGED << env_vars, fs, current_download, cancel_requested,
                    call, total, history_vars, disk_fn_vars, aux_vars >>

\* The transfer is complete: the file is moved to local_dir/filename.
HfDone(t) ==
    LET p == fetched_path(call[t].model_info) IN
    /\ pc[t] = "hf"
    /\ total[t] # 0 => n[t] = total[t]
    /\ IF fs[p].kind = "dir"
       THEN /\ Except(t, ErrIsADirectory)
            /\ UNCHANGED fs
       ELSE /\ fs' = [fs EXCEPT ![p] = File(n[t])]
            /\ pc' = [pc EXCEPT ![t] = "rename"]
            /\ UNCHANGED result
    /\ UNCHANGED << env_vars, current_download, cancel_requested,
                    call, total, n, updates, log, history_vars, disk_fn_vars, aux_vars >>


(***************************************************************************)
(* download() after the fetch: the rename, the final progress sample, the  *)
(* result, the finally clause.  All of it is inside the try block.         *)
(***************************************************************************)
\* `if downloaded_path.name != local_filename:` and `if target_path.exists():`
RenameCheck(t) ==
    LET m == call[t].model_info IN
    /\ pc[t] = "rename"
    /\ pc' = [pc EXCEPT ![t] =
                IF m.filename = get_local_filename(m) THEN "final"
                ELSE IF exists(fs, target_path(m)) THEN "unlink"
                ELSE "move"]
    /\ UNCHANGED << env_vars, fs, current_download, cancel_requested,
                    call, total, n, updates, result, log, history_vars,
                    disk_fn_vars, aux_vars >>

\* `target_path.unlink()`
Unlink(t) ==
    LET p == target_path(call[t].model_info) IN
    /\ pc[t] = "unlink"
    /\ IF fs[p].kind = "file"
       THEN /\ fs' = [fs EXCEPT ![p] = Absent]
            /\ pc' = [pc EXCEPT ![t] = "move"]
            /\ UNCHANGED result
       ELSE /\ Except(t, IF fs[p].kind = "dir" THEN ErrIsADirectory ELSE ErrNoSuchFile)
            /\ UNCHANGED fs
    /\ UNCHANGED << env_vars, current_download, cancel_requested,
                    call, total, n, updates, log, history_vars, disk_fn_vars, aux_vars >>

\* `downloaded_path.rename(target_path)`
Move_keeps_source(t) ==
    LET m == call[t].model_info
        src == fetched_path(m)
        dst == target_path(m)
    IN
    /\ pc[t] = "move"
    /\ IF fs[src].kind = "file" /\ fs[dst].kind # "dir"
       THEN /\ fs' = [fs EXCEPT ![dst] = fs[src]]
            /\ pc' = [pc EXCEPT ![t] = "final"]
            /\ UNCHANGED result
       ELSE /\ Except(t, IF fs[src].kind # "file" THEN ErrNoSuchFile
                         ELSE ErrIsADirectory)
            /\ UNCHANGED fs
    /\ UNCHANGED << env_vars, current_download, cancel_requested,
                    call, total, n, updates, log, history_vars, disk_fn_vars, aux_vars >>

Move(t) ==
    LET m == call[t].model_info
        src == fetched_path(m)
        dst == target_path(m)
    IN
    /\ pc[t] = "move"
    /\ IF fs[src].kind = "file" /\ fs[dst].kind # "dir"
       THEN /\ fs' = [fs EXCEPT ![dst] = fs[src], ![src] = Absent]
            /\ pc' = [pc EXCEPT ![t] = "final"]
            /\ UNCHANGED result
       ELSE /\ Except(t, IF fs[src].kind # "file" THEN ErrNoSuchFile
                         ELSE ErrIsADirectory)
            /\ UNCHANGED fs
    /\ UNCHANGED << env_vars, current_download, cancel_requested,
                    call, total, n, updates, log, history_vars, disk_fn_vars, aux_vars >>

\* downloaded_path once the rename block is passed: what hf_hub_download
\* returned, or target_path when the file was renamed
\* (`downloaded_path = target_path`).
downloaded_path_not_reassigned(m) == fetched_path(m)

downloaded_path(m) ==
    IF m.filename # get_local_filename(m) THEN target_path(m) ELSE fetched_path(m)

\* `if progress_callback:` the stat, the final sample; then the result.
FinalProgress_reports_counters(t) ==
    LET m == call[t].model_info
        p == downloaded_path(m)
    IN
    /\ pc[t] = "final"
    /\ IF call[t].progress_callback = "none"
       THEN /\ Return(t, Success(m, p))
            /\ UNCHANGED log
       ELSE IF ~exists(fs, p)
       THEN /\ Except(t, ErrNoSuchFile)
            /\ UNCHANGED log
       ELSE IF call[t].progress_callback = "raises"
       THEN /\ Except(t, ErrCallback)
            /\ UNCHANGED log
       ELSE /\ log' = [log EXCEPT ![t] =
                         Append(@, Event("final",
                                         DownloadProgress(m.id, n[t], total[t], Zero)))]
            /\ Return(t, Success(m, p))
    /\ UNCHANGED << env_vars, fs, current_download, cancel_requested,
                    call, total, n, updates, history_vars, disk_fn_vars, aux_vars >>

FinalProgress(t) ==
    LET m == call[t].model_info
        p == downloaded_path(m)
    IN
    /\ pc[t] = "final"
    /\ IF call[t].progress_callback = "none"
       THEN /\ Return(t, Success(m, p))
            /\ UNCHANGED log
       ELSE IF ~exists(fs, p)
       THEN /\ Except(t, ErrNoSuchFile)
            /\ UNCHANGED log
       ELSE IF call[t].progress_callback = "raises"
       THEN /\ Except(t, ErrCallback)
            /\ UNCHANGED log
       ELSE /\ log' = [log EXCEPT ![t] =
                         Append(@, Event("final",
                                         DownloadProgress(m.id, fs[p].size, fs[p].size, Zero)))]
            /\ Return(t, Success(m, p))
    /\ UNCHANGED << env_vars, fs, current_download, cancel_requested,
                    call, total, n, updates, history_vars, disk_fn_vars, aux_vars >>

\* `finally: self._current_download = None`, and download() returns: the
\* progress bar of the fetch is gone with it.
Finally_on_success_only(t) ==
    /\ pc[t] = "finally"
    /\ current_download' = IF result[t][1].success THEN None ELSE current_download
    /\ pc' = [pc EXCEPT ![t] = "returned"]
    /\ total' = [total EXCEPT ![t] = 0]
    /\ n' = [n EXCEPT ![t] = 0]
    /\ updates' = [updates EXCEPT ![t] = 0]
    /\ UNCHANGED << env_vars, fs, cancel_requested, call, result, log,
                    history_vars, disk_fn_vars, aux_vars >>

Finally(t) ==
    /\ pc[t] = "finally"
    /\ current_download' = None
    /\ pc' = [pc EXCEPT ![t] = "returned"]
    /\ total' = [total EXCEPT ![t] = 0]
    /\ n' = [n EXCEPT ![t] = 0]
    /\ updates' = [updates EXCEPT ![t] = 0]
    /\ UNCHANGED << env_vars, fs, cancel_requested, call, result, log,
                    history_vars, disk_fn_vars, aux_vars >>

\* run(): `if complete_callback: complete_callback(result)`; the thread ends.
Complete(t) ==
    /\ pc[t] = "returned"
    /\ log' = [log EXCEPT ![t] =
                 IF call[t].complete_callback
                 THEN Append(@, Event("complete", result[t][1]))
                 ELSE @]
    /\ pc' = [pc EXCEPT ![t] = "done"]
    /\ UNCHANGED << env_vars, fs, current_download, cancel_requested,
                    call, total, n, updates, result, history_vars, disk_fn_vars, aux_vars >>

(***************************************************************************)
(* DownloadProgressTqdm.update on the clock: what `due` and the speed of a *)
(* sample are when time.time() is followed.                                *)
(***************************************************************************)
TicksPerSecond == 4 * QuarterTicks

\* `if elapsed >= 0.25:`
rate_limit_due_any_time(elapsed) == elapsed > 0

rate_limit_due(elapsed) == elapsed >= QuarterTicks

\* `bytes_delta / elapsed if elapsed > 0 else 0`, in bytes per second.
instant_speed(bytes_delta, elapsed) ==
    IF elapsed > 0 THEN Rat(bytes_delta * TicksPerSecond, elapsed) ELSE Zero

\* `if self._smoothed_speed == 0: ... else: 0.3 * instant + 0.7 * smoothed`
smooth_weights_swapped(smoothed, instant) ==
    IF smoothed = Zero THEN instant
    ELSE RatAdd(RatMul(Rat(7, 10), instant), RatMul(Rat(3, 10), smoothed))

smooth(smoothed, instant) ==
    IF smoothed = Zero THEN instant
    ELSE RatAdd(RatMul(Rat(3, 10), instant), RatMul(Rat(7, 10), smoothed))

\* The bar of thread t gets update(k) when the clock has advanced by dt.
BarUpdate(t, k, dt) ==
    LET now == clock + dt
        elapsed == now - last_update_time
        timed == call[t].progress_callback # "none" /\ total[t] # 0
        due == ~cancel_requested /\ timed /\ rate_limit_due(elapsed)
        speed == smooth(smoothed_speed, instant_speed(n[t] + k - last_bytes, elapsed))
    IN
    /\ pc[t] = "hf"
    /\ now <= MaxClock
    /\ n[t] + k <= MaxBarBytes
    /\ clock' = now
    /\ smoothed_speed' = IF due THEN speed ELSE smoothed_speed
    /\ last_update_time' = IF due THEN now ELSE last_update_time
    /\ last_bytes' = IF due THEN n[t] + k ELSE last_bytes
    /\ samples' = IF due THEN Append(samples, now) ELSE samples
    /\ update(t, k, due, IF due THEN speed ELSE Zero)
    /\ UNCHANGED << env_vars, fs, current_download, cancel_requested,
                    call, total, history_vars, disk_fn_vars,
                    progress_fn_vars, error_fn_vars, ui_vars >>

\* download() of sd15_base on thread w1 has come to `stage` of the fetch, with
\* one of the progress callbacks and the bar's total one of `totals`.
InitInFlight(stage, callbacks, totals) ==
    /\ HF_AVAILABLE = TRUE
    /\ models_dir_exists = TRUE
    /\ fs = [p \in Paths |-> IF p \in TypeDirs THEN Dir ELSE Absent]
    /\ current_download = Some("sd15_base")
    /\ cancel_requested = FALSE
    /\ pc = [t \in Threads |-> IF t = "w1" THEN stage ELSE "idle"]
    /\ \E p \in callbacks :
          call = [t \in Threads |->
                    IF t = "w1"
                    THEN [model_info |-> get_model_info("sd15_base"),
                          progress_callback |-> p, complete_callback |-> TRUE]
                    ELSE NoCall]
    /\ \E tot \in totals :
          total = [t \in Threads |-> IF t = "w1" THEN tot ELSE 0]
    /\ n = [t \in Threads |-> 0]
    /\ updates = [t \in Threads |-> 0]
    /\ result = [t \in Threads |-> None]
    /\ log = [t \in Threads |-> << >>]
    /\ cancel_seen = [t \in Threads |-> "no"]
    /\ free_read = [t \in Threads |-> 0]
    /\ after_stale = [t \in Threads |-> FALSE]
    /\ d_size = 0
    /\ d_free = 0
    /\ d_out = "unset"
    /\ InitProgressFn

\* hf_hub_download has created the bar of a download: DownloadProgressTqdm's
\* __init__ has read the clock, nothing is counted yet.
InitBarFetch ==
    /\ InitInFlight("hf", {"none", "ok"}, {0, MaxBarBytes})
    /\ InitBar
    /\ InitUi
    /\ InitErrorFn

NextBar ==
    \/ \E k \in 1..MaxBarBytes, dt \in 0..(QuarterTicks + 1) : BarUpdate("w1", k, dt)
    \/ cancel_download

SpecBar == InitBarFetch /\ [][NextBar]_vars

(***************************************************************************)
(* The generic failure path on its own: hf_hub_download raises an          *)
(* exception whose text is any sequence of up to MaxWords of the words the *)
(* classification looks for, in either case, and of words it does not.     *)
(***************************************************************************)
Keywords ==
    { "401", "unauthorized", "403", "forbidden",
      "connection", "timeout", "resolve", "dns" }

ErrorWords ==
    Keywords \cup { "Unauthorized", "Forbidden", "Connection", "Timeout",
                    "Resolve", "DNS", "Disk", "quota" }

ErrorTexts == UNION { [1..k -> ErrorWords] : k \in 0..MaxWords }

InitError ==
    /\ InitInFlight("open", {"none"}, {0})
    /\ InitBar
    /\ InitUi
    /\ e_text \in ErrorTexts

NextError ==
    \/ HfError("w1", e_text)
    \/ Finally("w1")
    \/ Complete("w1")

SpecError == InitError /\ [][NextError]_vars

(***************************************************************************)
(* The program: any interleaving of the caller and the worker threads.     *)
(***************************************************************************)
Worker(t) ==
    \/ CheckBackend(t)
    \/ \E free_units \in FreeChoices : CheckDiskSpace(t, free_units)
    \/ \E free_units \in FreeChoices : NoSpace(t, free_units)
    \/ Mkdir(t)
    \/ MarkInFlight(t)
    \/ ResetCancel(t)
    \/ \E tot \in 0..MaxBytes : HfOpen(t, tot)
    \/ HfNotFound(t)
    \/ \E text \in RawErrors : HfError(t, text)
    \/ \E k \in 1..MaxBytes, due \in BOOLEAN, speed \in SpeedChoices \cup {Zero} :
          HfChunk(t, k, due, speed)
    \/ HfDone(t)
    \/ RenameCheck(t)
    \/ Unlink(t)
    \/ Move(t)
    \/ FinalProgress(t)
    \/ Finally(t)
    \/ Complete(t)

\* The caller uses the downloader as its single slot asks: it starts a
\* download when the one before has ended (its thread is over), and may ask
\* for a cancellation at any time.
Caller ==
    \/ \E m \in DownloadModels, p \in ProgressCallbacks, c \in BOOLEAN :
          DownloadAsync("w1", m, p, c) /\ UNCHANGED dialog
    \/ cancel_download

Next ==
    \/ Caller
    \/ \E t \in Threads : Worker(t)

Spec == Init /\ [][Next]_vars

(***************************************************************************)
(* check_disk_space on its own: any size up to MaxSizeMb, on a disk whose  *)
(* free space is around what the size asks for.                            *)
(***************************************************************************)
InitDisk ==
    /\ HF_AVAILABLE = TRUE
    /\ models_dir_exists = TRUE
    /\ fs = [p \in Paths |-> Absent]
    /\ InitThreads
    /\ d_size \in 0..MaxSizeMb
    /\ d_free \in { (d_size + Headroom) * UnitsPerMB + k :
                       k \in (0 - UnitsPerMB - 1)..(UnitsPerMB + 1) }
    /\ d_out = "unset"
    /\ InitBar
    /\ InitUi
    /\ InitProgressFn
    /\ InitErrorFn

CallCheckDiskSpace ==
    /\ d_out = "unset"
    /\ d_out' = IF check_disk_space(d_free, d_size) THEN "true" ELSE "false"
    /\ UNCHANGED << env_vars, fs, current_download, cancel_requested, pc, call,
                    total, n, updates, result, log, history_vars, d_size, d_free,
                    aux_vars >>

NextDisk == CallCheckDiskSpace

SpecDisk == InitDisk /\ [][NextDisk]_vars

(***************************************************************************)
(* No download is running and none has run: the state in which a function  *)
(* or a progress bar is followed on its own.                               *)
(***************************************************************************)
InitIdle ==
    /\ HF_AVAILABLE = TRUE
    /\ models_dir_exists = TRUE
    /\ fs = [p \in Paths |-> Absent]
    /\ InitThreads
    /\ d_size = 0
    /\ d_free = 0
    /\ d_out = "unset"

(***************************************************************************)
(* DownloadProgress.progress on its own: any byte counts up to MaxCount,   *)
(* as update() and download() build them (counts of bytes, never           *)
(* negative).                                                              *)
(***************************************************************************)
InitProgress ==
    /\ InitIdle
    /\ InitBar
    /\ InitUi
    /\ InitErrorFn
    /\ p_value \in { Some(DownloadProgress("sd15_base", d, tot, Zero)) :
                        d \in 0..MaxCount, tot \in 0..MaxCount }
    /\ p_out = None

CallProgress ==
    /\ p_out = None
    /\ p_out' = Some(progress(p_value[1]))
    /\ UNCHANGED << env_vars, fs, current_download, cancel_requested, pc, call,
                    total, n, updates, result, log, history_vars, disk_fn_vars,
                    bar_vars, error_fn_vars, p_value, ui_vars >>

SpecProgress == InitProgress /\ [][CallProgress]_vars


(***************************************************************************)
(* The catalog functions on their own: get_models_by_type,                 *)
(* get_required_models and get_model_info with get_local_filename, each    *)
(* applied to any argument a caller can pass.                              *)
(***************************************************************************)
\* ModelType: the values of the enumeration.
ModelTypes ==
    { "checkpoints", "vae", "clip_vision", "text_encoders", "loras",
      "controlnet", "upscale_models" }

\* The workflow tags a caller asks for: those the catalog names in a
\* required_for list, and one it does not name.
WorkflowTags == { "text2img", "img2img", "inpaint", "3d", "audio", "upscale" }

InitCatalog ==
    /\ InitIdle
    /\ InitBar
    /\ InitProgressFn
    /\ InitErrorFn
    /\ dialog = NoDialog
    /\ window = NoWindow
    /\ \E ty \in ModelTypes, tag \in WorkflowTags, k \in 1..Len(CatalogKeys) :
          cq = [NoQuery EXCEPT !.model_type = ty, !.workflow_type = tag,
                               !.model_id = CatalogKeys[k]]

CallGetModelsByType ==
    /\ cq.by_type = None
    /\ cq' = [cq EXCEPT !.by_type = Some(get_models_by_type(cq.model_type))]
    /\ UNCHANGED << core_vars, dialog, window >>

CallGetRequiredModels ==
    /\ cq.required = None
    /\ cq' = [cq EXCEPT !.required = Some(get_required_models(cq.workflow_type))]
    /\ UNCHANGED << core_vars, dialog, window >>

\* get_model_info(model_id), then get_local_filename() of the entry.
CallGetModelInfo ==
    /\ cq.info = None
    /\ cq' = [cq EXCEPT !.info = Some(get_model_info(cq.model_id)),
                        !.local = Some(get_local_filename(get_model_info(cq.model_id)))]
    /\ UNCHANGED << core_vars, dialog, window >>

NextCatalog ==
    \/ CallGetModelsByType
    \/ CallGetRequiredModels
    \/ CallGetModelInfo

SpecCatalog == InitCatalog /\ [][NextCatalog]_vars

(***************************************************************************)
(* ModelDownloadDialog (switchgen/ui/model_dialog.py): its download        *)
(* buttons, _on_download_clicked and _on_complete, with the downloader the *)
(* dialog owns.  The handlers run on the GTK main loop, one at a time; the *)
(* worker threads download_async starts run beside them.                   *)
(***************************************************************************)
DownloadIds == { m.id : m \in DownloadModels }

\* The download buttons _create_model_row makes for a model: the one of its
\* row in its type section and, when the model is recommended and not yet
\* installed, the one of its row in the Getting Started section.
Buttons == {"started", "section"} \X DownloadIds

\* self._download_buttons[model_id] once _build_ui is over: the Getting
\* Started section is built first and the type sections after it, and each
\* row stores its button under the model's id, so the entry of a model is
\* the button of its type-section row.
download_buttons(model_id) == << "section", model_id >>

\* The free space the dialog and its worker find on the disk: enough for
\* every model, or short of every model's need.
DialogFree ==
    { (m.size_mb + Headroom) * UnitsPerMB : m \in DownloadModels } \cup {0}

\* _refresh_status, and the loop that ends _on_complete: the buttons of
\* _download_buttons are sensitive exactly for the models not installed.
refresh_status(sensitive, f) ==
    [b \in Buttons |->
        IF b = download_buttons(b[2])
        THEN ~is_model_installed(get_model_info(b[2]), f)
        ELSE sensitive[b]]

\* The dialog is constructed: get_disk_space_mb() in _build_ui needs
\* models_dir to exist; the Getting Started section holds rows for any of
\* the models that are not installed; _refresh_status has run.
InitDialog ==
    /\ HF_AVAILABLE \in BOOLEAN
    /\ models_dir_exists = TRUE
    /\ fs \in { f \in [Paths -> {Absent, Dir, File(OldSize)}] :
                 /\ \A p \in TypeDirs : f[p] = Dir
                 /\ \A p \in TargetPaths : f[p] \in {Absent, File(OldSize)}
                 /\ \A p \in Paths \ (TargetPaths \cup TypeDirs) : f[p] = Absent }
    /\ InitThreads
    /\ d_size = 0
    /\ d_free = 0
    /\ d_out = "unset"
    /\ InitBar
    /\ InitProgressFn
    /\ InitErrorFn
    /\ cq = NoQuery
    /\ window = NoWindow
    /\ \E started \in SUBSET { id \in DownloadIds :
                                 ~is_model_installed(get_model_info(id), fs) } :
          dialog = [sensitive |->
                       refresh_status([b \in Buttons |-> b[2] \in started], fs),
                    handled |-> [t \in Threads |-> FALSE]]

\* A thread slot download_async can take: its thread is over and the main
\* loop has handled the completion it posted.
SlotFree(t) ==
    \/ pc[t] \in {"idle", "raised"}
    \/ pc[t] = "done" /\ dialog.handled[t]

\* _on_download_clicked(button, model), for a click on a sensitive button.
OnDownloadClicked(b, free_units, t) ==
    LET m == get_model_info(b[2]) IN
    /\ dialog.sensitive[b]
    /\ SlotFree(t)
    /\ t = "w2" => ~SlotFree("w1")
    /\ IF is_downloading \/ ~check_disk_space(free_units, m.size_mb)
       THEN UNCHANGED vars
       ELSE /\ dialog' =
                 [sensitive |->
                     [x \in Buttons |->
                         IF x = download_buttons(x[2]) THEN FALSE
                         ELSE dialog.sensitive[x]],
                  handled |-> [dialog.handled EXCEPT ![t] = FALSE]]
            /\ DownloadAsync(t, m, "ok", TRUE)

\* _on_complete(result), run by the main loop for the GLib.idle_add the
\* complete callback of thread t made.
OnComplete(t) ==
    /\ pc[t] = "done"
    /\ ~dialog.handled[t]
    /\ dialog' = [sensitive |-> refresh_status(dialog.sensitive, fs),
                  handled |-> [dialog.handled EXCEPT ![t] = TRUE]]
    /\ UNCHANGED << core_vars, cq, window >>

\* download() on the dialog's worker threads.
DialogWorker(t) ==
    \/ CheckBackend(t)
    \/ \E free_units \in DialogFree : CheckDiskSpace(t, free_units)
    \/ \E free_units \in DialogFree : NoSpace(t, free_units)
    \/ Mkdir(t)
    \/ MarkInFlight(t)
    \/ ResetCancel(t)
    \/ HfOpen(t, 1)
    \/ HfNotFound(t)
    \/ HfChunk(t, 1, TRUE, One)
    \/ HfDone(t)
    \/ RenameCheck(t)
    \/ Unlink(t)
    \/ Move(t)
    \/ FinalProgress(t)
    \/ Finally(t)
    \/ Complete(t)

NextDialog ==
    \/ \E b \in Buttons, free_units \in DialogFree, t \in Threads :
          OnDownloadClicked(b, free_units, t)
    \/ \E t \in Threads : OnComplete(t)
    \/ \E t \in Threads : DialogWorker(t)

SpecDialog == InitDialog /\ [][NextDialog]_vars

(***************************************************************************)
(* MainWindow (switchgen/ui/main_window.py): _on_generate, _on_complete    *)
(* and _reset_ui, with the handlers that set what _on_generate reads.  The *)
(* generation queue, the workflow builders and WORKFLOW_SPECS are not part *)
(* of the sources: the window sees of them what it calls.  A builder or    *)
(* submit() returns or raises; a submitted job ends with one of the        *)
(* outcomes _on_complete tells apart, and its on_complete is called once.  *)
(***************************************************************************)
\* What building the workflow and submitting it come to, after line 444:
\* a workflow is built and submitted, no workflow is built, or a step raises.
BuildOutcomes == {"built", "none", "raises"}
\* job.result as _on_complete reads it.
JobOutcomes == {"images", "no_images", "failure"}

\* MainWindow.__init__: the state fields, the generate button insensitive,
\* the _init_comfy thread started.  What the specification of the current
\* workflow needs is WORKFLOW_SPECS's to say.
InitWindow ==
    /\ InitIdle
    /\ InitBar
    /\ InitProgressFn
    /\ InitErrorFn
    /\ cq = NoQuery
    /\ dialog = NoDialog
    /\ \E ni \in BOOLEAN, nm \in BOOLEAN :
          window = [init |-> "starting", generating |-> FALSE,
                    generate_btn |-> FALSE, queue |-> FALSE,
                    selectable |-> FALSE,
                    needs_input_image |-> ni, needs_mask |-> nm,
                    input_image_path |-> FALSE, mask_image_path |-> FALSE,
                    jobs |-> 0, completions |-> << >>]

\* _init_comfy, on its thread: self._queue = get_queue(), or an exception.
InitComfy(ok) ==
    /\ window.init = "starting"
    /\ window' = [window EXCEPT !.init = IF ok THEN "queue" ELSE "failed",
                                !.queue = ok]
    /\ UNCHANGED << core_vars, cq, dialog >>

\* _on_ready, on the main loop: the checkpoint list is filtered for the
\* current workflow and the generate button made sensitive.
OnReady(sel) ==
    /\ window.init = "queue"
    /\ window' = [window EXCEPT !.init = "ready", !.selectable = sel,
                                !.generate_btn = TRUE]
    /\ UNCHANGED << core_vars, cq, dialog >>

\* _on_workflow_changed: the workflow, what its specification needs and the
\* filtered checkpoint list (the selected index is inside it or not).
OnWorkflowChanged(ni, nm, sel) ==
    /\ window.init = "ready"
    /\ window' = [window EXCEPT !.needs_input_image = ni, !.needs_mask = nm,
                                !.selectable = sel]
    /\ UNCHANGED << core_vars, cq, dialog >>

\* _on_input_picked and _on_mask_picked, with a file.
OnInputPicked ==
    /\ window' = [window EXCEPT !.input_image_path = TRUE]
    /\ UNCHANGED << core_vars, cq, dialog >>

OnMaskPicked ==
    /\ window' = [window EXCEPT !.mask_image_path = TRUE]
    /\ UNCHANGED << core_vars, cq, dialog >>

\* _reset_ui
reset_ui(w) == [w EXCEPT !.generating = FALSE, !.generate_btn = TRUE]

\* _on_generate(btn): the handler of the generate button.
OnGenerate_ignores_flag(build) ==
    /\ window.jobs + Len(window.completions) < MaxJobs
    /\ IF \/ ~window.queue
          \/ ~window.selectable
          \/ window.needs_input_image /\ ~window.input_image_path
          \/ window.needs_mask /\ ~window.mask_image_path
       THEN UNCHANGED window
       ELSE window' =
              CASE build = "none" -> reset_ui(window)
                [] build = "raises" ->
                      [window EXCEPT !.generating = TRUE, !.generate_btn = FALSE]
                [] build = "built" ->
                      [window EXCEPT !.generating = TRUE, !.generate_btn = FALSE,
                                     !.jobs = @ + 1]
    /\ UNCHANGED << core_vars, cq, dialog >>

OnGenerate(build) ==
    /\ window.jobs + Len(window.completions) < MaxJobs
    /\ IF \/ window.generating
          \/ ~window.queue
          \/ ~window.selectable
          \/ window.needs_input_image /\ ~window.input_image_path
          \/ window.needs_mask /\ ~window.mask_image_path
       THEN UNCHANGED window
       ELSE window' =
              CASE build = "none" -> reset_ui(window)
                [] build = "raises" ->
                      [window EXCEPT !.generating = TRUE, !.generate_btn = FALSE]
                [] build = "built" ->
                      [window EXCEPT !.generating = TRUE, !.generate_btn = FALSE,
                                     !.jobs = @ + 1]
    /\ UNCHANGED << core_vars, cq, dialog >>

\* The queue ends a job and calls its on_complete, which posts _on_complete
\* to the main loop (GLib.idle_add).
JobDone(outcome) ==
    /\ window.jobs > 0
    /\ window' = [window EXCEPT !.jobs = @ - 1,
                                !.completions = Append(@, outcome)]
    /\ UNCHANGED << core_vars, cq, dialog >>

\* _on_complete(job), on the main loop: the image is shown when the job
\* brought one (tensor_to_pil and _show_image return, or one of them
\* raises), then _reset_ui.
OnCompleteJob(shown) ==
    /\ window.completions # << >>
    /\ window' =
          IF Head(window.completions) = "images" /\ ~shown
          THEN [window EXCEPT !.completions = Tail(@)]
          ELSE [reset_ui(window) EXCEPT !.completions = Tail(@)]
    /\ UNCHANGED << core_vars, cq, dialog >>

NextWindow ==
    \/ \E ok \in BOOLEAN : InitComfy(ok)
    \/ \E sel \in BOOLEAN : OnReady(sel)
    \/ \E ni \in BOOLEAN, nm \in BOOLEAN, sel \in BOOLEAN :
          OnWorkflowChanged(ni, nm, sel)
    \/ OnInputPicked
    \/ OnMaskPicked
    \/ \E build \in BuildOutcomes : OnGenerate(build)
    \/ \E outcome \in JobOutcomes : JobDone(outcome)
    \/ \E shown \in BOOLEAN : OnCompleteJob(shown)

SpecWindow == InitWindow /\ [][NextWindow]_vars

\* The queue's worker ends every job it was given, and the GTK main loop
\* runs every callback posted to it.
SpecWindowFair ==
    /\ SpecWindow
    /\ WF_vars(\E outcome \in JobOutcomes : JobDone(outcome))
    /\ WF_vars(\E shown \in BOOLEAN : OnCompleteJob(shown))

(***************************************************************************)
(* What the caller has seen of thread t's download.                        *)
(***************************************************************************)
Completes(t) == Cardinality({ i \in 1..Len(log[t]) : log[t][i].ev = "complete" })
ProgressEvents(t) == SelectSeq(log[t], LAMBDA e : e.ev # "complete")
\* download() has returned its DownloadResult.
Returned(t) == pc[t] \in {"returned", "done"}
\* The thread of the download is over.
Over(t) == pc[t] \in {"done", "raised"}

(***************************************************************************)
(* C1: for every download_async with a complete callback, the callback is  *)
(* invoked exactly once whatever the outcome: never twice, and once by the *)
(* time the thread is over, also when a fault is raised in the disk-space  *)
(* query or in the creation of the directory.                              *)
(***************************************************************************)
C1_CompleteExactlyOnce ==
    \A t \in Threads :
        call[t].complete_callback =>
            /\ Completes(t) <= 1
            /\ Over(t) => Completes(t) = 1

(***************************************************************************)
(* C2: download() never raises; every failure is returned as a result with *)
(* success = false and a non-empty error string.                           *)
(***************************************************************************)
C2_NeverRaises ==
    \A t \in Threads :
        /\ pc[t] # "raised"
        /\ (result[t] # None /\ ~result[t][1].success) =>
              /\ result[t][1].error # None
              /\ result[t][1].error[1] # << >>

(***************************************************************************)
(* C3: once download() has reached a terminal outcome, the in-flight       *)
(* marker is cleared: is_downloading is false and current_download_id is   *)
(* None.                                                                   *)
(***************************************************************************)
C3_MarkerCleared ==
    \A t \in Threads :
        Returned(t) => (~is_downloading /\ current_download_id = None)

\* A download that was in flight has returned cancelled, and the marker is clear.
C3_Witness ==
    \E t \in Threads :
        /\ pc[t] = "returned"
        /\ result[t][1].error = Some(MsgCancelled)
        /\ ~is_downloading

(***************************************************************************)
(* C4: a download for which cancel_download() came after its               *)
(* download_async and before its first chunk ends with success = false and *)
(* the error "Download cancelled".  Stated here in the part every reading  *)
(* of the claim shares: such a download, when it goes on to receive chunks *)
(* (update() has reported one), does not end in success.                   *)
(***************************************************************************)
C4_CancelBeforeTransfer ==
    \A t \in Threads :
        (/\ Returned(t)
         /\ cancel_seen[t] = "early"
         /\ \E i \in 1..Len(log[t]) : log[t][i].ev = "progress")
            => ~result[t][1].success

(***************************************************************************)
(* C5: the cancellation flag is checked on every chunk before the chunk is *)
(* counted.  A call of update() that finds the flag set counts nothing,    *)
(* emits nothing, touches no file and makes download() return the failure  *)
(* "Download cancelled"; after that the download emits no progress sample, *)
(* final or not, and renames nothing.                                      *)
(***************************************************************************)
C5_CancelOnChunk ==
    [][\A t \in Threads :
         /\ (updates'[t] = updates[t] + 1 /\ cancel_requested) =>
               /\ n'[t] = n[t]
               /\ log'[t] = log[t]
               /\ fs' = fs
               /\ pc'[t] = "finally"
               /\ result'[t] =
                    Some([success |-> FALSE, model_id |-> call[t].model_info.id,
                          path |-> None, error |-> Some(<<"Download cancelled">>)])
         /\ (/\ result[t] # None
             /\ result[t][1].error = Some(<<"Download cancelled">>)
             /\ pc'[t] # "start") =>
               /\ ProgressEvents(t)' = ProgressEvents(t)
               /\ fs' = fs
               /\ result'[t] = result[t]
      ]_vars

\* The flag was found set on the second chunk, after a first one was counted
\* and reported.
C5_Witness ==
    \E t \in Threads :
        /\ pc[t] = "finally"
        /\ result[t][1].error = Some(MsgCancelled)
        /\ updates[t] = 2
        /\ n[t] = 1
        /\ Len(log[t]) = 1

(***************************************************************************)
(* C6: a cancel_download() that comes after a transfer has succeeded       *)
(* changes nothing: a result, once produced, stays as it is, and a         *)
(* download is cancelled only by a request made while it runs, never by a  *)
(* request left over from before it started.                               *)
(***************************************************************************)
C6_StaleCancelNoOp ==
    /\ [](\A t \in Threads :
            (result[t] # None /\ result[t][1].error = Some(MsgCancelled))
                => cancel_seen[t] # "no")
    /\ [][\A t \in Threads :
            (result[t] # None /\ pc'[t] # "start") => result'[t] = result[t]]_vars

\* A download started with a cancel request pending from after an earlier
\* success, received chunks and succeeded.
C6_Witness ==
    \E t \in Threads :
        /\ after_stale[t]
        /\ cancel_seen[t] = "no"
        /\ pc[t] = "done"
        /\ result[t][1].success
        /\ Len(log[t]) >= 2

(***************************************************************************)
(* C7: with the download backend unavailable, download() returns a failure *)
(* that explains it and has no side effect: it goes straight to its return *)
(* with the filesystem, the in-flight marker, the cancel flag and the      *)
(* callbacks made left as they were.                                       *)
(***************************************************************************)
C7_BackendUnavailable ==
    [][\A t \in Threads :
         (pc[t] = "start" /\ ~HF_AVAILABLE /\ pc'[t] # "start") =>
            /\ pc'[t] = "returned"
            /\ result'[t] # None
            /\ ~result'[t][1].success
            /\ result'[t][1].error = Some(MsgNoBackend)
            /\ fs' = fs
            /\ current_download' = current_download
            /\ cancel_requested' = cancel_requested
            /\ log'[t] = log[t]
            /\ updates'[t] = 0
      ]_vars

\* The rejection has been returned, and a cancel request made before it is
\* still pending.
C7_Witness ==
    \E t \in Threads :
        /\ pc[t] = "returned"
        /\ result[t][1].error = Some(MsgNoBackend)
        /\ cancel_requested

(***************************************************************************)
(* C8: when check_disk_space(model.size_mb) is false, download() returns a *)
(* failure whose error names the MB required and the MB available, before  *)
(* anything is written: the type directory is not created, no fetch is     *)
(* made and the in-flight marker is not set.                               *)
(***************************************************************************)
NoSpaceBranch(t) ==
    free_read[t] < (call[t].model_info.size_mb + 500) * UnitsPerMB

C8_InsufficientSpace ==
    /\ [](\A t \in Threads :
            /\ pc[t] = "nospace" => NoSpaceBranch(t)
            /\ pc[t] = "mkdir" => ~NoSpaceBranch(t))
    /\ [][\A t \in Threads :
            /\ (pc[t] = "disk" /\ pc'[t] = "nospace") =>
                  /\ fs' = fs
                  /\ current_download' = current_download
                  /\ cancel_requested' = cancel_requested
                  /\ updates'[t] = 0
                  /\ log'[t] = << >>
            /\ (pc[t] = "nospace" /\ pc'[t] # "nospace") =>
                  /\ pc'[t] = "returned"
                  /\ ~result'[t][1].success
                  /\ result'[t][1].path = None
                  /\ \E u \in FreeChoices :
                        LET text == result'[t][1].error[1] IN
                        /\ contains(text, ToString(call[t].model_info.size_mb))
                        /\ contains(text, ToString(Format0f(u)))
                  /\ fs' = fs
                  /\ current_download' = current_download
                  /\ cancel_requested' = cancel_requested
                  /\ updates'[t] = 0
                  /\ log'[t] = << >>
         ]_vars

\* The rejection has been returned and the type directory is still missing.
C8_Witness ==
    \E t \in Threads :
        /\ pc[t] = "returned"
        /\ result[t][1].error =
             Some(MsgNoSpace(call[t].model_info.size_mb,
                             (call[t].model_info.size_mb + 500) * UnitsPerMB - 1))
        /\ ~exists(fs, target_dir(call[t].model_info))
        /\ ~is_downloading

(***************************************************************************)
(* C9: check_disk_space(size_mb) is true iff free_mb >= size_mb + 500, for *)
(* every size_mb >= 0: true with exactly size_mb + 500 MB free, false with *)
(* size_mb + 499.                                                          *)
(***************************************************************************)
C9_DiskSpaceBoundary ==
    d_out # "unset" =>
        /\ (d_out = "true") <=> (d_free >= (d_size + 500) * UnitsPerMB)
        /\ d_free = (d_size + 500) * UnitsPerMB => d_out = "true"
        /\ d_free = (d_size + 499) * UnitsPerMB => d_out = "false"

\* The answer at exactly size_mb + 500 MB free, for the largest size.
C9_Witness ==
    /\ d_out = "true"
    /\ d_size = MaxSizeMb
    /\ d_free = (d_size + 500) * UnitsPerMB

(***************************************************************************)
(* C10: every DownloadResult of download() has a path and no error when    *)
(* success is true, an error and no path when it is false, and the id of   *)
(* the requested model.                                                    *)
(***************************************************************************)
C10_ResultShape ==
    \A t \in Threads :
        result[t] # None =>
            LET r == result[t][1] IN
            /\ r.model_id = call[t].model_info.id
            /\ r.success => (r.path # None /\ r.error = None)
            /\ ~r.success => (r.path = None /\ r.error # None)

\* A success and its path, after a rename.
C10_Witness ==
    \E t \in Threads :
        /\ pc[t] = "returned"
        /\ result[t][1].success
        /\ result[t][1].path = Some(<<"checkpoints", "stable-audio-open-1.0.safetensors">>)
        /\ result[t][1].error = None

(***************************************************************************)
(* C11: whenever download(model) has returned success = true, result.path  *)
(* is the path models_dir/<type>/<local filename>, a file is there, and    *)
(* is_model_installed(model, models_dir) is true.                          *)
(***************************************************************************)
C11_SuccessInstalls ==
    \A t \in Threads :
        (result[t] # None /\ result[t][1].success) =>
            LET m == call[t].model_info IN
            /\ result[t][1].path = Some(target_path(m))
            /\ fs[target_path(m)].kind = "file"
            /\ is_model_installed(m, fs)

\* A download without a progress callback has succeeded for the entry whose
\* file is renamed, and the caller has been told.
C11_Witness ==
    \E t \in Threads :
        /\ pc[t] = "done"
        /\ call[t].progress_callback = "none"
        /\ call[t].model_info.id = "stable_audio"
        /\ result[t][1].success
        /\ is_model_installed(call[t].model_info, fs)

(***************************************************************************)
(* C12: when the fetched file's name differs from the configured local     *)
(* filename, a successful download leaves the fetched file under the local *)
(* filename in the type directory, in the place of any file that was       *)
(* there, and no file under the remote name; when the names are equal no   *)
(* rename and no delete is performed: the unlink and the rename are never  *)
(* reached and the filesystem is as hf_hub_download left it.               *)
(***************************************************************************)
C12_Rename ==
    [][ \A t \in Threads :
          LET m == call[t].model_info
              differ == m.filename # get_local_filename(m)
          IN
          /\ (differ /\ pc[t] = "final" /\ pc'[t] = "finally"
                 /\ result'[t][1].success) =>
                 /\ fs'[target_path(m)] = File(n[t])
                 /\ fs'[fetched_path(m)] = Absent
          /\ (~differ /\ pc[t] \in {"rename", "final"}) =>
                 /\ pc'[t] \notin {"unlink", "move"}
                 /\ fs' = fs
      ]_vars

\* The renamed entry has succeeded with a progress callback; the file that
\* was fetched is under the local filename, nothing under the remote one.
C12_Witness ==
    \E t \in Threads :
        LET m == call[t].model_info IN
        /\ pc[t] = "finally"
        /\ m.filename # get_local_filename(m)
        /\ call[t].progress_callback = "ok"
        /\ result[t][1].success
        /\ n[t] = MaxBytes
        /\ fs[target_path(m)] = File(MaxBytes)
        /\ fs[fetched_path(m)] = Absent

(***************************************************************************)
(* C13: a successful download with a progress callback emits exactly one   *)
(* final progress sample, with downloaded_bytes = total_bytes = the size   *)
(* of the file on disk and speed 0.  It is emitted after the rename, after *)
(* every streaming sample and before download() returns; no progress       *)
(* callback follows the return, and a download that fails or is cancelled  *)
(* emits no final sample.  (The callbacks counted are those that return.)  *)
(***************************************************************************)
FinalSamples(t) == { i \in 1..Len(log[t]) : log[t][i].ev = "final" }

C13_FinalState(t) ==
    LET m == call[t].model_info IN
    /\ Cardinality(FinalSamples(t)) <= 1
    /\ \A i \in FinalSamples(t) :
          /\ log[t][i].arg.speed_bps = Zero
          /\ log[t][i].arg.downloaded_bytes = fs[target_path(m)].size
          /\ log[t][i].arg.total_bytes = fs[target_path(m)].size
          /\ fs[target_path(m)].kind = "file"
          /\ \A j \in 1..Len(log[t]) :
                (log[t][j].ev = "progress" => j < i) /\ (log[t][j].ev = "complete" => j > i)
    /\ (result[t] # None /\ result[t][1].success
          /\ call[t].progress_callback # "none") => FinalSamples(t) # {}
    /\ (result[t] # None /\ ~result[t][1].success) => FinalSamples(t) = {}

C15_FractionMonotone ==
    \A t \in Threads :
        LET samples_seen == ProgressEvents(t) IN
        \A i, j \in 1..Len(samples_seen) :
            i < j => RatLeq(progress(samples_seen[i].arg), progress(samples_seen[j].arg))

\* Half of the file, then all of it, then the final sample.
C15_Witness ==
    \E t \in Threads :
        /\ pc[t] = "finally"
        /\ Len(log[t]) = 3
        /\ progress(log[t][1].arg) = Rat(1, 2)
        /\ progress(log[t][2].arg) = One
        /\ log[t][3].ev = "final"
        /\ progress(log[t][3].arg) = One

(***************************************************************************)
(* C16: progress callbacks are rate-limited.  While a transfer streams, a  *)
(* callback is emitted only when at least 250 ms have passed since the     *)
(* emission before it (since the start of the transfer for the first), so  *)
(* no more than 4 are emitted per second, and a chunk that arrives less    *)
(* than 250 ms after the last emission produces no callback.               *)
(***************************************************************************)
LastEmission == IF samples = << >> THEN 0 ELSE samples[Len(samples)]

C16_Spacing ==
    /\ Len(ProgressEvents("w1")) = Len(samples)
    /\ \A i \in 1..Len(samples) :
          samples[i] - (IF i = 1 THEN 0 ELSE samples[i - 1]) >= QuarterTicks
    \* no more than 4 per second, over any stretch of the transfer
    /\ \A i, j \in 0..Len(samples) :
          i < j => (j - i) * TicksPerSecond
                      <= 4 * (samples[j] - (IF i = 0 THEN 0 ELSE samples[i]))

C16_RateLimit ==
    [][ /\ C16_Spacing'
        /\ (clock' - LastEmission < QuarterTicks) => log' = log
      ]_vars

\* Two callbacks have been emitted, and a chunk that came one tick after
\* the second has been counted without a callback.
C16_Witness ==
    /\ Len(samples) = 2
    /\ Len(log["w1"]) = 2
    /\ clock = LastEmission + 1
    /\ updates["w1"] = 3
    /\ n["w1"] > log["w1"][2].arg.downloaded_bytes

(***************************************************************************)
(* C17: the reported speed is an exponential moving average.  The first    *)
(* instantaneous sample of a download seeds it (speed = instant); every    *)
(* later sample gives speed = 0.3 * instant + 0.7 * previous, where        *)
(* instant is the bytes received since the last sample divided by the time *)
(* since the last sample.  Only the first sample seeds.                    *)
(***************************************************************************)
C17_Instant(i) ==
    LET emitted == ProgressEvents("w1")
        bytes_before == IF i = 1 THEN 0 ELSE emitted[i - 1].arg.downloaded_bytes
        time_before == IF i = 1 THEN 0 ELSE samples[i - 1]
    IN  Rat((emitted[i].arg.downloaded_bytes - bytes_before) * TicksPerSecond,
            samples[i] - time_before)

RECURSIVE C17_Average(_)
C17_Average(i) ==
    IF i = 1 THEN C17_Instant(1)
    ELSE RatAdd(RatMul(Rat(3, 10), C17_Instant(i)),
                RatMul(Rat(7, 10), C17_Average(i - 1)))

C17_SmoothedSpeed ==
    LET emitted == ProgressEvents("w1") IN
    /\ Len(emitted) = Len(samples)
    /\ \A i \in 1..Len(emitted) : emitted[i].arg.speed_bps = C17_Average(i)

\* Three samples of different instantaneous speeds: the third reported
\* speed is neither its own instant nor the second's.
C17_Witness ==
    LET emitted == ProgressEvents("w1") IN
    /\ Len(emitted) = 3
    /\ C17_Instant(1) # C17_Instant(2)
    /\ C17_Instant(2) # C17_Instant(3)
    /\ emitted[3].arg.speed_bps # C17_Instant(3)
    /\ emitted[3].arg.speed_bps = C17_Average(3)

(***************************************************************************)
(* The four kinds of failure a raw error text may indicate.                *)
(***************************************************************************)
IsAuth(text) == contains(text, "401") \/ contains_lower(text, "unauthorized")
IsDenied(text) == contains(text, "403") \/ contains_lower(text, "forbidden")
IsNetwork(text) == contains_lower(text, "connection") \/ contains_lower(text, "timeout")
IsDns(text) == contains_lower(text, "resolve") \/ contains_lower(text, "dns")

Kinds(text) ==
    { k \in {"auth", "denied", "network", "dns"} :
        \/ k = "auth" /\ IsAuth(text)
        \/ k = "denied" /\ IsDenied(text)
        \/ k = "network" /\ IsNetwork(text)
        \/ k = "dns" /\ IsDns(text) }

Guidance(k) ==
    CASE k = "auth" -> MsgAuth
      [] k = "denied" -> MsgDenied
      [] k = "network" -> MsgNetwork
      [] k = "dns" -> MsgResolve

(***************************************************************************)
(* C18: on the generic failure path a raw error text that indicates 401 /  *)
(* unauthorized, 403 / forbidden, connection / timeout or resolve / dns is *)
(* replaced in result.error by the guidance of its category, never left   *)
(* as the raw text; each of the four kinds yields its own guidance, a DNS  *)
(* failure whose text also mentions a connection included.                 *)
(***************************************************************************)
C18_Guidance ==
    result["w1"] # None =>
        LET error == result["w1"][1].error[1] IN
        /\ Kinds(e_text) # {} => error \in { Guidance(k) : k \in Kinds(e_text) }
        /\ \A k \in Kinds(e_text) : Kinds(e_text) = {k} => error = Guidance(k)
        /\ Kinds(e_text) = {"network", "dns"} => error = Guidance("dns")

(***************************************************************************)
(* C19: when the remote artifact is missing, download() returns            *)
(* success = false with an error that carries the repository and the       *)
(* filename of the missing artifact; the keyword classification is not     *)
(* applied to it and the fetch is not retried.                             *)
(***************************************************************************)
C19_NotFound ==
    [][ \A t \in Threads :
          HfNotFound(t) =>
              LET m == call[t].model_info
                  r == result'[t][1]
              IN  /\ ~r.success
                  /\ contains(r.error[1], repo_id(m))
                  /\ contains(r.error[1], m.filename)
                  /\ r.error[1] \notin { MsgAuth, MsgDenied, MsgNetwork, MsgResolve }
                  /\ pc'[t] = "finally"
      ]_vars

(***************************************************************************)
(* C20: a generic failure whose raw error text matches none of the         *)
(* keywords 401, unauthorized, 403, forbidden, connection, timeout,        *)
(* resolve, dns is surfaced unchanged: result.error is the original text.  *)
(***************************************************************************)
C20_Unclassified ==
    (result["w1"] # None /\ \A kw \in Keywords : ~contains_lower(e_text, kw)) =>
        result["w1"][1].error = Some(e_text)

\* "Disk quota" has reached the complete callback as it was raised.
C20_Witness ==
    /\ pc["w1"] = "done"
    /\ e_text = <<"Disk", "quota">>
    /\ log["w1"] = << Event("complete",
                            DownloadResult(FALSE, "sd15_base", None,
                                           Some(<<"Disk", "quota">>))) >>

(***************************************************************************)
(* C21: is_model_installed(entry, models_dir) is true exactly when         *)
(* models_dir/<type>/<local filename> is a regular file: it is false when  *)
(* the path is absent and when it is a directory, whatever the downloads   *)
(* before the call have left on the disk.                                  *)
(***************************************************************************)
C21_InstalledIffFile ==
    \A m \in DownloadModels :
        is_model_installed(m, fs) <=> fs[target_path(m)].kind = "file"

(***************************************************************************)
(* Where an entry stands in the catalog's declaration order.               *)
(***************************************************************************)
CatalogIndex(m) == CHOOSE k \in 1..Len(MODEL_CATALOG) : MODEL_CATALOG[k] = m

\* `out` lists, once each and in declaration order, exactly the catalog
\* entries that are in `wanted`.
ExactlyInOrder(out, wanted) ==
    /\ \A k \in 1..Len(MODEL_CATALOG) :
          (MODEL_CATALOG[k] \in wanted) <=>
              (\E i \in 1..Len(out) : out[i] = MODEL_CATALOG[k])
    /\ \A i \in 1..Len(out) : \E k \in 1..Len(MODEL_CATALOG) : out[i] = MODEL_CATALOG[k]
    /\ \A i, j \in 1..Len(out) : i < j => CatalogIndex(out[i]) < CatalogIndex(out[j])

(***************************************************************************)
(* C22: get_models_by_type(t) returns exactly the catalog entries whose    *)
(* type is t, and get_required_models(tag) exactly the entries whose       *)
(* required-for list contains tag; both in the catalog's declaration       *)
(* order and without duplicates.                                           *)
(***************************************************************************)
C22_CatalogQueries ==
    /\ cq.by_type # None =>
          ExactlyInOrder(cq.by_type[1],
                         { MODEL_CATALOG[k] : k \in { i \in 1..Len(MODEL_CATALOG) :
                              MODEL_CATALOG[i].type = cq.model_type } })
    /\ cq.required # None =>
          ExactlyInOrder(cq.required[1],
                         { MODEL_CATALOG[k] : k \in { i \in 1..Len(MODEL_CATALOG) :
                              cq.workflow_type \in
                                 { MODEL_CATALOG[i].required_for[j] :
                                      j \in 1..Len(MODEL_CATALOG[i].required_for) } } })

\* The four ControlNet entries and the one entry img2img requires (named
\* second in its list) have been returned.
C22_Witness ==
    /\ cq.model_type = "controlnet"
    /\ cq.by_type # None
    /\ Len(cq.by_type[1]) = 4
    /\ cq.workflow_type = "img2img"
    /\ cq.required # None
    /\ Len(cq.required[1]) = 1
    /\ cq.required[1][1].id = "sd15_base"

(***************************************************************************)
(* C23: in the catalog every identifier is unique and equals the key the   *)
(* entry is stored under, and get_local_filename() of an entry returns the *)
(* override when one is given and the remote filename otherwise.           *)
(***************************************************************************)
C23_CatalogIds ==
    /\ \A i, j \in 1..Len(MODEL_CATALOG) :
          MODEL_CATALOG[i].id = MODEL_CATALOG[j].id => i = j
    /\ cq.info # None =>
          LET m == cq.info[1] IN
          /\ m.id = cq.model_id
          /\ cq.local = Some(IF m.local_filename # None THEN m.local_filename[1]
                             ELSE m.filename)

\* An entry with an override has been looked up by its key.
C23_Witness ==
    /\ cq.model_id = "stable_audio"
    /\ cq.info # None
    /\ cq.local = Some("stable-audio-open-1.0.safetensors")

\* The canonical paths of the catalog are pairwise distinct, and no staging
\* path is the canonical path of another entry.
CatalogPathsDistinct ==
    \A i, j \in 1..Len(MODEL_CATALOG) :
        i # j =>
           /\ target_path(MODEL_CATALOG[i]) # target_path(MODEL_CATALOG[j])
           /\ fetched_path(MODEL_CATALOG[i]) # target_path(MODEL_CATALOG[j])

(***************************************************************************)
(* C28: no two catalog entries resolve to the same on-disk path            *)
(* <type dirname>/<local filename>, and no entry's staging path            *)
(* <type dirname>/<remote filename> is the canonical path of a different   *)
(* entry; and no step of a download of one entry changes what is at the    *)
(* canonical path of another entry.                                        *)
(***************************************************************************)
C28_NoSharedPath ==
    [][ /\ CatalogPathsDistinct
        /\ \A t \in Threads, m \in DownloadModels :
              (active(t) /\ m.id # call[t].model_info.id)
                 => fs'[target_path(m)] = fs[target_path(m)]
      ]_vars

\* stable_audio has been fetched as checkpoints/model.safetensors and renamed
\* while sd15_base was installed in the same directory: its file is as it was.
C28_Witness ==
    /\ pc["w1"] = "done"
    /\ call["w1"].model_info.id = "stable_audio"
    /\ result["w1"][1].success
    /\ fs[target_path(get_model_info("stable_audio"))].kind = "file"
    /\ fs[target_path(get_model_info("sd15_base"))] = File(OldSize)

\* Thread t is running: run() is between its start and its end.
Running(t) == pc[t] \in InDownload \cup {"returned"}

(***************************************************************************)
(* C24: download_async returns to its caller without waiting for the       *)
(* download: the step that issues it only starts the thread, with no       *)
(* result and no callback made.  Every progress callback and the complete  *)
(* callback are invoked by a step of the running worker thread, never by   *)
(* the step of the thread that called download_async.                      *)
(***************************************************************************)
C24_CallbacksOnWorker ==
    [][ \A t \in Threads :
          /\ (~Running(t) /\ pc'[t] # pc[t]) =>
                (pc'[t] = "start" /\ result'[t] = None /\ log'[t] = << >>)
          /\ Len(log'[t]) > Len(log[t]) => Running(t)
      ]_vars

\* A download has made a progress callback, the final one and the complete
\* callback, all from the worker thread, and the thread is over.
C24_Witness ==
    /\ pc["w1"] = "done"
    /\ Len(log["w1"]) = 3
    /\ log["w1"][1].ev = "progress"
    /\ log["w1"][2].ev = "final"
    /\ log["w1"][3].ev = "complete"

\* download() on thread t is between marking itself in flight and its result.
InFlight(t) == pc[t] \in {"reset", "open", "hf", "rename", "unlink", "move", "final"}

(***************************************************************************)
(* C27: in ModelDownloadDialog, whatever the clicks on the download        *)
(* buttons (of any row, in the Getting Started section or a type section)  *)
(* and however they interleave with the workers, at most one download      *)
(* worker of the dialog's downloader is running at any time.               *)
(***************************************************************************)
C27_SingleWorker == Cardinality({ t \in Threads : active(t) }) <= 1

(***************************************************************************)
(* C26: whenever some download() on the instance is between marking itself *)
(* in flight and producing its terminal result, is_downloading is true and *)
(* current_download_id is the id of a model being transferred, under every *)
(* interleaving of the calls on the instance, two overlapping downloads    *)
(* included.                                                               *)
(***************************************************************************)
C26_MarkerWhileInFlight ==
    (\E t \in Threads : InFlight(t)) =>
        /\ is_downloading
        /\ \E t \in Threads :
              InFlight(t) /\ current_download_id = Some(call[t].model_info.id)

(***************************************************************************)
(* C25: when the complete callback of a download_async is invoked, the     *)
(* in-flight marker has been cleared: is_downloading is false and          *)
(* current_download_id is None at the moment of the callback.              *)
(***************************************************************************)
C25_IdleAtCallback ==
    [][ \A t \in Threads :
          (pc[t] = "returned" /\ pc'[t] = "done" /\ call[t].complete_callback)
             => (~is_downloading /\ current_download_id = None)
      ]_vars

\* _on_generate returns at once: one of its four conditions holds.
Blocked ==
    \/ window.generating
    \/ ~window.queue
    \/ ~window.selectable
    \/ window.needs_input_image /\ ~window.input_image_path
    \/ window.needs_mask /\ ~window.mask_image_path

\* The jobs submitted whose completion the window has not handled yet.
Outstanding == window.jobs + Len(window.completions)

(***************************************************************************)
(* C29: while a generation is in progress, the queue is not initialised,   *)
(* the selected model index is outside the filtered checkpoint list, or    *)
(* the workflow needs an input image or a mask that has not been picked,   *)
(* _on_generate does nothing: no job is submitted, _generating is not set  *)
(* and the generate button is not disabled.  At most one generation job is *)
(* submitted and outstanding at any time.                                  *)
(***************************************************************************)
C29_GenerateNoOp ==
    /\ [](Outstanding <= 1)
    /\ [][ Blocked =>
              /\ window'.jobs <= window.jobs
              /\ window'.generating => window.generating
              /\ window.generate_btn => window'.generate_btn
         ]_vars

\* A generation is in progress and its job outstanding, with everything the
\* workflow needs picked: _on_generate, called here, returns at once.
C29_Witness ==
    /\ window.generating
    /\ window.jobs = 1
    /\ window.needs_mask
    /\ window.mask_image_path

(***************************************************************************)
(* C30: every time _on_generate has set _generating, the window returns to *)
(* the idle state (_generating false, generate button enabled), whatever   *)
(* the outcome of the job and also when no workflow is built or a step     *)
(* after the flag was set fails.                                           *)
(***************************************************************************)
C30_ReturnsToIdle ==
    window.generating ~> (~window.generating /\ window.generate_btn)

====
